---- MODULE Spec2Model ----
(***************************************************************************)
(* ParallelAtariEnv (pettingzoo/atari/base_atari_env.py): the multi-agent  *)
(* session adapter over one shared Atari emulator (multi_agent_ale_py).    *)
(*                                                                         *)
(* The adapter's fields are the variables; every public method is one      *)
(* action.  The emulator is an external library: it is modelled as a small *)
(* deterministic machine, the ALE_ operators, whose answers depend on its  *)
(* own state and on the action vector only; every call the adapter makes   *)
(* on it during one method is written to the variable calls, with its      *)
(* argument and its answer.                                                *)
(*                                                                         *)
(* Python sequences are 0-indexed, TLA+ sequences 1-indexed: slot i of the *)
(* code is position i + 1 here.  np_random is written by _seed and reset   *)
(* and read by nothing in the class; it is left out.                       *)
(***************************************************************************)
EXTENDS Integers, Sequences, FiniteSets, TLC

VARIABLES
    rom_path,          \* self.rom_path: the ROM the game argument names
    mode_num,          \* the mode_num argument of __init__ (None or a mode)
    num_players,       \* self.num_players
    max_cycles,        \* self.max_cycles
    render_mode,       \* self.render_mode ("None" for None)
    obs_type,          \* self.obs_type
    mode,              \* self.mode (0 while not assigned)
    action_mapping,    \* self.action_mapping
    possible_agents,   \* self.possible_agents
    agents,            \* self.agents
    started,           \* reset has run: self.frame and self.terminations exist
    frame,             \* self.frame
    self_terminations, \* self.terminations
    screen,            \* self._screen is not None
    ale,               \* the emulator behind self.ale
    held,              \* the buffer the caller of a recorded run keeps
    lastOp,            \* the method that ran last
    action_dict,       \* the argument of the last step
    ret,               \* what the last method returned
    pre_agents,        \* self.agents when the last method was entered
    steps,             \* number of step calls since the last reset
    calls,             \* the emulator calls of the last method, in order
    run                \* the run recorded after a clone_full_state

vars == <<rom_path, mode_num, num_players, max_cycles, render_mode, obs_type,
          mode, action_mapping, possible_agents, agents, started, frame,
          self_terminations, screen, ale, held, lastOp, action_dict, ret,
          pre_agents, steps, calls, run>>

\* the fields no method assigns after __init__
config == <<rom_path, mode_num, num_players, max_cycles, render_mode,
            obs_type, mode, action_mapping, possible_agents>>

----------------------------------------------------------------------------
(* Bounds of the exploration *)

MaxCycles == 2      \* max_cycles is drawn from 1..MaxCycles
MaxAction == 1      \* logical action indices are drawn from 0..MaxAction
MaxReplay == 1      \* steps of a recorded run that are kept for comparison

MaxFrame == MaxCycles           \* step is explored while self.frame < MaxFrame
PlayerCounts == {1, 2}          \* explored values of num_players
Seeds == {0, 1}                 \* explored seeds
SnapshotRams == {1}             \* explored clock values of a restored buffer

----------------------------------------------------------------------------
(* Helpers *)

Range(s) == {s[i] : i \in 1..Len(s)}

Min(a, b) == IF a < b THEN a ELSE b

\* dict comprehension {k: v for k, v in zip(keys, values) if k in members}
ZipDict(keys, values, members) ==
    LET n == Min(Len(keys), Len(values))
        idx(k) == CHOOSE i \in 1..n : keys[i] = k
    IN  [k \in {keys[i] : i \in 1..n} \cap members |-> values[idx(k)]]

\* a is a subsequence of b, in b's order, without duplicates
IsSubseq(a, b) ==
    \E pos \in [1..Len(a) -> 1..Len(b)] :
        /\ \A i \in 1..Len(a) : a[i] = b[pos[i]]
        /\ \A i, j \in 1..Len(a) : i < j => pos[i] < pos[j]

----------------------------------------------------------------------------
(* The emulator.  Its state: the selected mode, the game state (per-slot   *)
(* life counts, the game-over flag, the memory cell ram that every frame   *)
(* is drawn from), the system state rng set from the seed, and the set     *)
(* refs of live state handles.                                             *)

EventKinds == <<"quiet", "hazard", "final">>

\* the kind of the coming tick: the random stream read at the game's clock
ALE_event(e) == EventKinds[((e.rng + e.ram) % Len(EventKinds)) + 1]

\* life count of a slot in play after reset_game; a slot out of play has -1
StartLives == 0

\* getAvailableModes(num_players): foozpong selects 19 for 2 and 21 for 4
\* players.  ROM "c" has an irregular table: it lists the four-player mode
\* under every player count.
ALE_getAvailableModes(rom, n) ==
    IF rom = "c" THEN <<n + 17, 21>> ELSE <<n + 17>>

ALE_numPlayersActive(e) == e.mode - 17

ALE_getMinimalActionSet(rom) == IF rom = "a" THEN <<0, 3, 4>> ELSE <<1, 4, 5>>

\* setInt(random_seed, s) followed by loadROM: power-on state, default mode 0
ALE_loadROM(s) ==
    [mode |-> 0, lives |-> <<>>, over |-> FALSE, ram |-> 0,
     rng |-> s % Len(EventKinds), refs |-> {}]

ALE_setMode(e, m) ==
    [e EXCEPT !.mode = m, !.lives = [i \in 1..(m - 17) |-> StartLives]]

ALE_reset_game(e) ==
    [e EXCEPT !.lives = [i \in 1..ALE_numPlayersActive(e) |-> StartLives],
              !.over = FALSE, !.ram = 0]

ALE_rewards(e, a) == [i \in 1..Len(a) |-> a[i] + e.rng]

\* act(actions): one tick.  On a hazard tick every slot in play whose action
\* code is odd loses a life; on a final tick the game ends when the code of
\* the first slot is odd.
ALE_act(e, a) ==
    [e EXCEPT
        !.lives = [i \in 1..Len(e.lives) |->
                     IF /\ ALE_event(e) = "hazard"
                        /\ e.lives[i] >= 0
                        /\ i <= Len(a)
                        /\ a[i] % 2 = 1
                     THEN e.lives[i] - 1 ELSE e.lives[i]],
        !.over = \/ e.over
                 \/ ALE_event(e) = "final" /\ Len(a) >= 1 /\ a[1] % 2 = 1,
        !.ram = e.ram + 1]

ALE_game_over(e) == e.over

ALE_allLives(e) == e.lives

ALE_getRAM(e) == <<"ram", e.ram>>

ALE_getScreenRGB(e) == <<"rgb", e.ram>>

ALE_getScreenGrayscale(e) == <<"gray", e.ram>>

\* cloneState leaves the system state (rng) out, cloneSystemState keeps it
ALE_cloneState(e) ==
    [kind |-> "game", lives |-> e.lives, over |-> e.over, ram |-> e.ram]

ALE_cloneSystemState(e) ==
    [kind |-> "system", lives |-> e.lives, over |-> e.over, ram |-> e.ram,
     rng |-> e.rng]

\* a state handle is live from the call that returns it until deleteState
ALE_acquire(e) == [e EXCEPT !.refs = @ \cup {Cardinality(@) + 1}]

ALE_handle(e) == Cardinality(e.refs) + 1

ALE_deleteState(e, h) == [e EXCEPT !.refs = @ \ {h}]

\* encodeState: the handle's content as a flat buffer of integers
ALE_encodeState(s) ==
    <<IF s.kind = "system" THEN 1 ELSE 0,
      IF s.kind = "system" THEN s.rng ELSE 0,
      IF s.over THEN 1 ELSE 0,
      s.ram>> \o s.lives

ALE_decodeState(b) ==
    IF b[1] = 1
    THEN [kind |-> "system", lives |-> SubSeq(b, 5, Len(b)), over |-> b[3] = 1,
          ram |-> b[4], rng |-> b[2]]
    ELSE [kind |-> "game", lives |-> SubSeq(b, 5, Len(b)), over |-> b[3] = 1,
          ram |-> b[4]]

ALE_restoreState(e, s) ==
    [e EXCEPT !.lives = s.lives, !.over = s.over, !.ram = s.ram]

ALE_restoreSystemState(e, s) ==
    [e EXCEPT !.lives = s.lives, !.over = s.over, !.ram = s.ram,
              !.rng = IF s.kind = "system" THEN s.rng ELSE e.rng]

\* a call of the log: the method making it, the primitive, its argument,
\* its answer
Call(by, f, arg, res) == [by |-> by, f |-> f, arg |-> arg, res |-> res]

\* Python's None where a string is expected; an optional value of another
\* type is the empty sequence (None) or a sequence of one element
None == "None"

Nothing == <<>>

Some(x) == <<x>>

----------------------------------------------------------------------------
(* Construction: ParallelAtariEnv.__init__ *)

player_names == <<"first", "second", "third", "fourth">>

AgentID(name) == name \o "_0"

action_size_full == 18

\* explored constructions: render_mode, obs_type, full_action_space, ROM
Setups ==
    {<<None, "ram", FALSE, "a">>,
     <<"human", "rgb_image", TRUE, "a">>,
     <<"rgb_array", "grayscale_image", FALSE, "b">>}

\* action_mapping: np.arange(18) or the emulator's minimal action set
ActionMapping(full_action_space, rom) ==
    IF full_action_space
    THEN [k \in 1..action_size_full |-> k - 1]
    ELSE ALE_getMinimalActionSet(rom)

\* mutant: the roster misses its last entry
InitialAgents_short(n) == [i \in 1..(n - 1) |-> AgentID(player_names[i])]

\* self.agents = [AgentID(f"{player_names[n]}_0") for n in range(num_players)]
InitialAgents(n) == [i \in 1..n |-> AgentID(player_names[i])]

\* mutant: the mode is set before the ROM is reloaded; the reload selects
\* the power-on mode again
SeedEmulator_modeFirst(s, m) == ALE_loadROM(s)

\* _seed: setInt(random_seed), loadROM, setMode(self.mode)
SeedEmulator(s, m) == ALE_setMode(ALE_loadROM(s), m)

SeedCalls(s, m) ==
    <<Call("_seed", "setInt", s, Nothing),
      Call("_seed", "loadROM", Nothing, Nothing),
      Call("_seed", "setMode", m, Nothing)>>

NoRun == [mode |-> "off", log |-> <<>>, pos |-> 0]

NoActions == [a \in {} |-> 0]

\* mutant: any mode selector is accepted
ModeSupported_any(mn, all_modes) == TRUE

\* assert mode in all_modes, when mode_num is given
ModeSupported(mn, all_modes) == mn = Nothing \/ mn[1] \in Range(all_modes)

\* mutant: the player count is not compared with the emulator's
PlayersMatch_any(n, e) == TRUE

\* assert num_players == self.ale.numPlayersActive()
PlayersMatch(n, e) == n = ALE_numPlayersActive(e)

\* __init__ left by a failed assertion: self.mode is m when it was assigned
\* (0 when not), the emulator is e, and none of action_mapping, agents,
\* possible_agents, _screen exists; the caller gets no instance.
ConstructionRaised(m, e) ==
    /\ mode = m
    /\ action_mapping = <<>>
    /\ possible_agents = <<>>
    /\ agents = <<>>
    /\ started = FALSE
    /\ frame = 0
    /\ self_terminations = NoActions
    /\ screen = FALSE
    /\ ale = e
    /\ held = Nothing
    /\ lastOp = "init_raised"
    /\ action_dict = NoActions
    /\ ret = Nothing
    /\ pre_agents = <<>>
    /\ steps = 0
    /\ calls = <<>>

Construct(n, mn, mc, rm, ot, fas, rom, s) ==
    LET e0 == ALE_loadROM(0)
        all_modes == ALE_getAvailableModes(rom, n)
        m == IF mn = Nothing THEN all_modes[1] ELSE mn[1]
    IN  /\ n \in 1..Len(player_names)
        /\ rom_path = rom
        /\ mode_num = mn
        /\ num_players = n
        /\ max_cycles = mc
        /\ render_mode = rm
        /\ obs_type = ot
        /\ IF ~ModeSupported(mn, all_modes)
           THEN ConstructionRaised(0, e0)
           ELSE IF ~PlayersMatch(n, ALE_setMode(e0, m))
           THEN ConstructionRaised(m, ALE_setMode(e0, m))
           ELSE /\ mode = m
                /\ action_mapping = ActionMapping(fas, rom)
                /\ possible_agents = InitialAgents(n)
                /\ agents = InitialAgents(n)
                /\ started = FALSE
                /\ frame = 0
                /\ self_terminations = NoActions
                /\ screen = FALSE
                /\ ale = SeedEmulator(s, m)
                /\ held = Nothing
                /\ lastOp = "init"
                /\ action_dict = NoActions
                /\ ret = Nothing
                /\ pre_agents = InitialAgents(n)
                /\ steps = 0
                /\ calls = <<>>

Init ==
    /\ \E n \in PlayerCounts, mc \in 1..MaxCycles, su \in Setups, s \in Seeds :
            Construct(n, Nothing, mc, su[1], su[2], su[3], su[4], s)
    /\ run = NoRun

----------------------------------------------------------------------------
(* _observe, render *)

\* ParallelEnv.max_num_agents: the size of the roster
max_num_agents == Len(possible_agents)

_observe(e) ==
    IF obs_type = "ram" THEN ALE_getRAM(e)
    ELSE IF obs_type = "rgb_image" THEN ALE_getScreenRGB(e)
    ELSE ALE_getScreenGrayscale(e)

ObserveCalls(e) ==
    IF obs_type = "ram"
    THEN <<Call("_observe", "getRAM", Nothing, ALE_getRAM(e))>>
    ELSE IF obs_type = "rgb_image"
    THEN <<Call("_observe", "getScreenRGB", Nothing, ALE_getScreenRGB(e))>>
    ELSE <<Call("_observe", "getScreenGrayscale", Nothing,
                ALE_getScreenGrayscale(e))>>

\* render(): what it returns, what it asks of the emulator, and self._screen
RenderReturn(e) ==
    IF render_mode = "rgb_array" THEN Some(ALE_getScreenRGB(e)) ELSE Nothing

\* mutant: the frame is fetched before the render mode is looked at
RenderCalls_always(e) ==
    <<Call("render", "getScreenDims", Nothing, Nothing),
      Call("render", "getScreenRGB", Nothing, ALE_getScreenRGB(e))>>

RenderCalls(e) ==
    IF render_mode = None THEN <<>>
    ELSE <<Call("render", "getScreenDims", Nothing, Nothing),
           Call("render", "getScreenRGB", Nothing, ALE_getScreenRGB(e))>>

\* mutant: every render creates the display surface
RenderScreen_any(scr) == TRUE

\* self._screen after render: created in human mode when it is None
RenderScreen(scr) == IF render_mode = "human" THEN TRUE ELSE scr

\* mutant: drawing the frame advances the emulator's clock
RenderEmulator_tick(e) == [e EXCEPT !.ram = @ + 1]

\* the emulator after render: getScreenDims and getScreenRGB only read it
RenderEmulator(e) == e

----------------------------------------------------------------------------
(* The recorded run.  Its caller keeps the buffer clone_full_state returns *)
(* and the steps taken after it (action_dict, observations, rewards), up   *)
(* to MaxReplay of them; after restore_full_state of that buffer, steps    *)
(* with the same action_dicts are a replay of the log.  A reset, another   *)
(* snapshot operation or a step that leaves the log ends the recording.    *)

Idle == [mode |-> "idle", log |-> <<>>, pos |-> 0]

RunAfterClone(r) ==
    IF r.mode = "off" THEN r ELSE [mode |-> "rec", log |-> <<>>, pos |-> 0]

RunAfterBreak(r) == IF r.mode = "off" THEN r ELSE Idle

RunAfterRestore(r) ==
    IF r.mode \in {"rec", "replay"}
    THEN [r EXCEPT !.mode = "replay", !.pos = 0]
    ELSE r

RunAfterStep(r, ad, observations, rewards) ==
    IF r.mode = "rec"
    THEN IF Len(r.log) < MaxReplay
         THEN [r EXCEPT !.log = Append(@, [action_dict |-> ad,
                                           observations |-> observations,
                                           rewards |-> rewards])]
         ELSE r
    ELSE IF r.mode = "replay"
    THEN IF r.pos < Len(r.log) /\ r.log[r.pos + 1].action_dict = ad
         THEN [r EXCEPT !.pos = @ + 1]
         ELSE Idle
    ELSE r

\* the buffer is kept while the run is recorded or replayed
KeptBuffer(r, buf) == IF r.mode \in {"rec", "replay"} THEN buf ELSE Nothing

----------------------------------------------------------------------------
(* reset *)

\* mutant: reset keeps the active list it finds
ResetAgents_keep(pa) == agents

\* self.agents = self.possible_agents[:]
ResetAgents(pa) == pa

\* self.terminations = {agent: False for agent in self.possible_agents}
ResetTerminations(pa) == [a \in Range(pa) |-> FALSE]

\* {agent: obs for agent in self.agents}
ObservationsFor(ags, obs) == [a \in Range(ags) |-> obs]

\* mutant: infos for the whole roster
InfosFor_roster(pa, ags) == [a \in Range(pa) |-> <<>>]

\* {agent: {} for agent in self.possible_agents if agent in self.agents}
InfosFor(pa, ags) == [a \in Range(pa) \cap Range(ags) |-> <<>>]

ResetEmulator(e, seed) ==
    ALE_reset_game(IF seed # Nothing THEN SeedEmulator(seed[1], mode) ELSE e)

ResetCalls(e, seed) ==
    (IF seed # Nothing THEN SeedCalls(seed[1], mode) ELSE <<>>)
        \o <<Call("reset", "reset_game", Nothing, Nothing)>>
        \o ObserveCalls(ResetEmulator(e, seed))

Reset(seed) ==
    LET e == ResetEmulator(ale, seed)
        newAgents == ResetAgents(possible_agents)
        obs == _observe(e)
    IN  /\ ale' = e
        /\ agents' = newAgents
        /\ self_terminations' = ResetTerminations(possible_agents)
        /\ frame' = 0
        /\ started' = TRUE
        /\ ret' = [observations |-> ObservationsFor(newAgents, obs),
                   infos |-> InfosFor(possible_agents, newAgents)]
        /\ calls' = ResetCalls(ale, seed)
        /\ lastOp' = "reset"
        /\ pre_agents' = agents
        /\ action_dict' = NoActions
        /\ steps' = 0
        /\ run' = RunAfterBreak(run)
        /\ held' = KeptBuffer(run', held)
        /\ UNCHANGED <<config, screen>>

----------------------------------------------------------------------------
(* step *)

\* mutant: the action vector is built over the active list
DenseActions_active(pa, ad) ==
    [i \in 1..Len(agents) |-> IF agents[i] \in DOMAIN ad THEN ad[agents[i]] ELSE 0]

\* actions = np.zeros(max_num_agents); actions[i] = action_dict[agent]
DenseActions(pa, ad) ==
    [i \in 1..max_num_agents |-> IF pa[i] \in DOMAIN ad THEN ad[pa[i]] ELSE 0]

\* actions = self.action_mapping[actions]
MappedActions(mapping, actions) ==
    [i \in 1..Len(actions) |-> mapping[actions[i] + 1]]

\* mutant: no step reports truncation
StepTruncations_never(ags, fr, mc) == [a \in Range(ags) |-> FALSE]

\* mutant: truncation one step late
StepTruncations_late(ags, fr, mc) == [a \in Range(ags) |-> fr > mc]

\* truncations = {agent: self.frame >= self.max_cycles for agent in self.agents}
StepTruncations(ags, fr, mc) == [a \in Range(ags) |-> fr >= mc]

\* mutant: a slot with no life left counts as out of play
StepTerminations_zero(pa, ags, over, lives) ==
    IF over
    THEN [a \in Range(ags) |-> TRUE]
    ELSE ZipDict(pa, [i \in 1..Len(lives) |-> lives[i] <= 0], Range(ags))

\* terminations: all True on game over, else int(life) < 0 by roster position
StepTerminations(pa, ags, over, lives) ==
    IF over
    THEN [a \in Range(ags) |-> TRUE]
    ELSE ZipDict(pa, [i \in 1..Len(lives) |-> lives[i] < 0], Range(ags))

\* mutant: rewards reported for the whole roster
StepRewards_roster(pa, ags, rewards) == ZipDict(pa, rewards, Range(pa))

\* mutant: rewards zipped with the active list, slots shifting after a prune
StepRewards_shifted(pa, ags, rewards) == ZipDict(ags, rewards, Range(ags))

\* rewards = {agent: rew for agent, rew in zip(possible_agents, rewards) if agent in agents}
StepRewards(pa, ags, rewards) == ZipDict(pa, rewards, Range(ags))

\* mutant: a truncated agent is removed like a terminated one
Prune_truncated(ags, terminations) ==
    SelectSeq(ags, LAMBDA a : ~terminations[a] /\ frame + 1 < max_cycles)

\* mutant: no agent is removed
Prune_none(ags, terminations) == ags

\* self.agents = [agent for agent in self.agents if not terminations[agent]]
Prune(ags, terminations) == SelectSeq(ags, LAMBDA a : ~terminations[a])

\* mutant: the observation is read before the act
StepObserved_before(before, after) == before

\* the emulator state the observation of step is read from
StepObserved(before, after) == after

StepCalls(e, native) ==
    LET e1 == ALE_act(e, native)
    IN  <<Call("step", "act", native, ALE_rewards(e, native)),
          Call("step", "game_over", Nothing, ALE_game_over(e1))>>
        \o (IF ALE_game_over(e1) THEN <<>>
            ELSE <<Call("step", "allLives", Nothing, ALE_allLives(e1))>>)
        \o ObserveCalls(StepObserved(e, e1))
        \o (IF render_mode = "human" THEN RenderCalls(e1) ELSE <<>>)

Step(ad) ==
    LET actions == DenseActions(possible_agents, ad)
        native == MappedActions(action_mapping, actions)
        rewardVec == ALE_rewards(ale, native)
        e1 == ALE_act(ale, native)
        newFrame == frame + 1
        truncations == StepTruncations(agents, newFrame, max_cycles)
        terminations ==
            StepTerminations(possible_agents, agents, ALE_game_over(e1),
                             ALE_allLives(e1))
        obs == _observe(StepObserved(ale, e1))
        observations == ObservationsFor(agents, obs)
        rewards == StepRewards(possible_agents, agents, rewardVec)
        infos == InfosFor(possible_agents, agents)
    IN  /\ started
        /\ frame < MaxFrame
        /\ Range(agents) \subseteq DOMAIN terminations
        /\ ale' = IF render_mode = "human" THEN RenderEmulator(e1) ELSE e1
        /\ frame' = newFrame
        /\ agents' = Prune(agents, terminations)
        /\ screen' = IF render_mode = "human" THEN RenderScreen(screen) ELSE screen
        /\ ret' = [observations |-> observations, rewards |-> rewards,
                   terminations |-> terminations, truncations |-> truncations,
                   infos |-> infos]
        /\ calls' = StepCalls(ale, native)
        /\ lastOp' = "step"
        /\ action_dict' = ad
        /\ pre_agents' = agents
        /\ steps' = steps + 1
        /\ run' = RunAfterStep(run, ad, observations, rewards)
        /\ held' = KeptBuffer(run', held)
        /\ UNCHANGED <<config, started, self_terminations>>

\* step before any reset: the emulator acts, then self.frame += 1 raises
\* AttributeError and nothing is returned
StepRaised(ad) ==
    LET native == MappedActions(action_mapping, DenseActions(possible_agents, ad))
    IN  /\ ~started
        /\ ale.ram < MaxFrame
        /\ ale' = ALE_act(ale, native)
        /\ calls' = <<Call("step", "act", native, ALE_rewards(ale, native))>>
        /\ lastOp' = "step_raised"
        /\ action_dict' = ad
        /\ ret' = Nothing
        /\ pre_agents' = agents
        /\ run' = RunAfterBreak(run)
        /\ held' = KeptBuffer(run', held)
        /\ UNCHANGED <<config, agents, started, frame, self_terminations,
                       screen, steps>>

----------------------------------------------------------------------------
(* render, close *)

Render ==
    /\ screen' = RenderScreen(screen)
    /\ ret' = RenderReturn(ale)
    /\ calls' = RenderCalls(ale)
    /\ ale' = RenderEmulator(ale)
    /\ lastOp' = "render"
    /\ action_dict' = NoActions
    /\ pre_agents' = agents
    /\ UNCHANGED <<config, agents, started, frame, self_terminations, held,
                   steps, run>>

Close ==
    /\ screen' = FALSE
    /\ ret' = Nothing
    /\ calls' = <<>>
    /\ lastOp' = "close"
    /\ action_dict' = NoActions
    /\ pre_agents' = agents
    /\ UNCHANGED <<config, agents, started, frame, self_terminations, ale,
                   held, steps, run>>

----------------------------------------------------------------------------
(* clone_state, restore_state, clone_full_state, restore_full_state *)

CloneCalls(by, f, e, content) ==
    <<Call(by, f, Nothing, ALE_handle(e)),
      Call(by, "encodeState", ALE_handle(e), ALE_encodeState(content)),
      Call(by, "deleteState", ALE_handle(e), Nothing)>>

\* mutant: the handle is deleted before it is restored from
RestoreCalls_deleteFirst(by, f, e, buf) ==
    <<Call(by, "decodeState", buf, ALE_handle(e)),
      Call(by, "deleteState", ALE_handle(e), Nothing),
      Call(by, f, ALE_handle(e), Nothing)>>

RestoreCalls(by, f, e, buf) ==
    <<Call(by, "decodeState", buf, ALE_handle(e)),
      Call(by, f, ALE_handle(e), Nothing),
      Call(by, "deleteState", ALE_handle(e), Nothing)>>

CloneState ==
    LET state_ref == ALE_handle(ale)
        e1 == ALE_acquire(ale)
        state == ALE_encodeState(ALE_cloneState(ale))
    IN  /\ ale' = ALE_deleteState(e1, state_ref)
        /\ ret' = Some(state)
        /\ calls' = CloneCalls("clone_state", "cloneState", ale,
                               ALE_cloneState(ale))
        /\ lastOp' = "clone_state"
        /\ action_dict' = NoActions
        /\ pre_agents' = agents
        /\ run' = RunAfterBreak(run)
        /\ held' = KeptBuffer(run', Some(state))
        /\ UNCHANGED <<config, agents, started, frame, self_terminations,
                       screen, steps>>

CloneFullState ==
    LET state_ref == ALE_handle(ale)
        e1 == ALE_acquire(ale)
        state == ALE_encodeState(ALE_cloneSystemState(ale))
    IN  /\ ale' = ALE_deleteState(e1, state_ref)
        /\ ret' = Some(state)
        /\ calls' = CloneCalls("clone_full_state", "cloneSystemState", ale,
                             ALE_cloneSystemState(ale))
        /\ lastOp' = "clone_full_state"
        /\ action_dict' = NoActions
        /\ pre_agents' = agents
        /\ run' = RunAfterClone(run)
        /\ held' = KeptBuffer(run', Some(state))
        /\ UNCHANGED <<config, agents, started, frame, self_terminations,
                       screen, steps>>

\* mutant: the frame counter follows the clock of the restored snapshot
RestoreFrame_snapshot(fr, s) == s.ram

\* self.frame after restore_state / restore_full_state: neither assigns it
RestoreFrame(fr, s) == fr

RestoreState(state) ==
    LET state_ref == ALE_handle(ale)
        e1 == ALE_acquire(ale)
        e2 == ALE_restoreState(e1, ALE_decodeState(state))
    IN  /\ ale' = ALE_deleteState(e2, state_ref)
        /\ ret' = Nothing
        /\ calls' = RestoreCalls("restore_state", "restoreState", ale, state)
        /\ lastOp' = "restore_state"
        /\ action_dict' = NoActions
        /\ pre_agents' = agents
        /\ run' = RunAfterBreak(run)
        /\ held' = KeptBuffer(run', held)
        /\ frame' = RestoreFrame(frame, ALE_decodeState(state))
        /\ UNCHANGED <<config, agents, started, self_terminations, screen,
                       steps>>

RestoreFullState(state) ==
    LET state_ref == ALE_handle(ale)
        e1 == ALE_acquire(ale)
        e2 == ALE_restoreSystemState(e1, ALE_decodeState(state))
    IN  /\ ale' = ALE_deleteState(e2, state_ref)
        /\ ret' = Nothing
        /\ calls' = RestoreCalls("restore_full_state", "restoreSystemState", ale,
                               state)
        /\ lastOp' = "restore_full_state"
        /\ action_dict' = NoActions
        /\ pre_agents' = agents
        /\ run' = RunAfterRestore(run)
        /\ held' = KeptBuffer(run', held)
        /\ frame' = RestoreFrame(frame, ALE_decodeState(state))
        /\ UNCHANGED <<config, agents, started, self_terminations, screen,
                       steps>>

----------------------------------------------------------------------------
(* The caller *)

SeedArgs == {Nothing} \cup {Some(s) : s \in Seeds}

\* the buffers restore_* is called with: the buffer kept in a recorded run,
\* otherwise any well-formed buffer of the matching clone_* (a snapshot of
\* this or of another episode)
Buffers(kind) ==
    {ALE_encodeState(s) : s \in
        IF kind = "game"
        THEN [kind : {"game"}, lives : [1..num_players -> -1..StartLives],
              over : BOOLEAN, ram : SnapshotRams]
        ELSE [kind : {"system"}, lives : [1..num_players -> -1..StartLives],
              over : BOOLEAN, ram : SnapshotRams,
              rng : {x % Len(EventKinds) : x \in Seeds}]}

RestoreArgs(kind) == IF run.mode = "off" THEN Buffers(kind) ELSE Range(held)

\* an action_dict: any subset of the roster, each with a logical action index
ActionDicts ==
    UNION {[S -> 0..MaxAction] : S \in SUBSET Range(possible_agents)}

Next ==
    \/ \E seed \in SeedArgs : Reset(seed)
    \/ \E ad \in ActionDicts : Step(ad)
    \/ \E ad \in ActionDicts : StepRaised(ad)
    \/ Render
    \/ Close
    \/ CloneState
    \/ CloneFullState
    \/ \E state \in RestoreArgs("game") : RestoreState(state)
    \/ \E state \in RestoreArgs("system") : RestoreFullState(state)

Spec == Init /\ [][Next]_vars

\* the recorded run, on one construction
InitRT ==
    /\ \E s \in Seeds :
          Construct(2, Nothing, MaxCycles, None, "ram", FALSE, "a", s)
    /\ run = Idle

SpecRT == InitRT /\ [][Next]_vars

\* construction with every mode selector, on a regular and on the irregular
\* ROM; a construction that raised leaves no instance to call
ModeArgs == {Nothing} \cup {Some(m) : m \in 18..21}

InitNew ==
    /\ \E n \in PlayerCounts, mn \in ModeArgs, rom \in {"a", "c"} :
          Construct(n, mn, 1, None, "ram", FALSE, rom, 0)
    /\ run = NoRun

Constructed == lastOp # "init_raised"

NextNew ==
    \/ Constructed /\ \E seed \in SeedArgs : Reset(seed)
    \/ Constructed /\ \E ad \in ActionDicts : Step(ad)
    \/ Constructed /\ \E ad \in ActionDicts : StepRaised(ad)
    \/ Constructed /\ Render
    \/ Constructed /\ Close
    \/ Constructed /\ CloneState
    \/ Constructed /\ CloneFullState
    \/ Constructed /\ \E state \in RestoreArgs("game") : RestoreState(state)
    \/ Constructed /\ \E state \in RestoreArgs("system") :
                         RestoreFullState(state)

SpecNew == InitNew /\ [][NextNew]_vars

----------------------------------------------------------------------------
(* Properties *)

Roster == Range(possible_agents)

StepDone == lastOp = "step"

\* the returned mappings of the last step
StepMappings ==
    <<ret.observations, ret.rewards, ret.terminations, ret.truncations,
      ret.infos>>

\* the calls of the log made by one method
CallsBy(by) == SelectSeq(calls, LAMBDA c : c.by = by)

\* C1: after reset, from any state, the active list is the roster in roster
\* order, the frame counter is 0, and the returned observations and infos
\* are keyed by exactly the roster.
C1_ResetRestoresRoster ==
    lastOp = "reset" =>
        /\ agents = possible_agents
        /\ frame = 0
        /\ DOMAIN ret.observations = Roster
        /\ DOMAIN ret.infos = Roster

C1_Witness ==
    /\ lastOp = "reset"
    /\ Len(pre_agents) < Len(possible_agents)
    /\ steps = 0
    /\ Len(possible_agents) > 1

\* C2: the active list is always a duplicate-free subsequence of the roster
\* in roster order; a method other than reset never adds an agent to it, and
\* a step reports only on agents that were active when it was entered, so an
\* agent once removed stays out of the list and of every later step's five
\* mappings until the next reset.
C2_ActiveOnlyShrinks ==
    /\ [](IsSubseq(agents, possible_agents))
    /\ [][lastOp' # "reset" =>
            /\ Range(agents') \subseteq Range(agents)
            /\ lastOp' = "step" =>
                 \A k \in 1..5 : DOMAIN StepMappings'[k] \subseteq Range(agents)]_vars

C2_Witness ==
    /\ StepDone
    /\ pre_agents # <<>>
    /\ Len(pre_agents) < Len(possible_agents)
    /\ Len(agents) < Len(pre_agents)

\* C3: the five mappings a step returns have the same key set, the agents
\* active when the step was entered; an agent whose termination is true in
\* this step is a key of all five and is out of the active list afterwards.
C3_StepKeysArePrePrune ==
    StepDone =>
        /\ \A k \in 1..5 : DOMAIN StepMappings[k] = Range(pre_agents)
        /\ \A a \in Range(pre_agents) :
              ret.terminations[a] => a \notin Range(agents)

C3_Witness ==
    /\ StepDone
    /\ \E a, b \in Range(pre_agents) :
          /\ ret.terminations[a]
          /\ ~ret.terminations[b]
          /\ a \in DOMAIN ret.observations
          /\ a \notin Range(agents)

\* C4: with max_cycles = N, every truncation value a step reports is false on
\* steps 1..N-1 after reset and true from step N on: it is true iff the frame
\* counter after the increment, which is the number of steps since reset, is
\* at least N, and it is the same for all agents of the step.
C4_TruncationAtMaxCycles ==
    StepDone =>
        /\ frame = steps
        /\ \A a \in DOMAIN ret.truncations :
              ret.truncations[a] <=> (steps >= max_cycles)

C4_Witness ==
    /\ StepDone
    /\ max_cycles > 1
    /\ steps = max_cycles
    /\ \E a \in DOMAIN ret.truncations : ret.truncations[a]

\* C5: if the emulator reports game over after the act, every agent active at
\* the start of the step is terminated whatever its life count and the active
\* list is empty afterwards; otherwise an agent is terminated iff the life
\* count of its own slot is negative, and exactly the terminated agents leave
\* the active list, the others keeping their order.
C5_TerminationRule ==
    StepDone =>
        IF ale.over
        THEN /\ \A a \in Range(pre_agents) : ret.terminations[a]
             /\ agents = <<>>
        ELSE /\ \A i \in 1..Len(possible_agents) :
                  possible_agents[i] \in Range(pre_agents) =>
                     (ret.terminations[possible_agents[i]] <=> ale.lives[i] < 0)
             /\ agents = SelectSeq(pre_agents, LAMBDA a : ~ret.terminations[a])

C5_Witness ==
    /\ StepDone
    /\ ale.over
    /\ pre_agents = possible_agents
    /\ \A i \in 1..Len(ale.lives) : ale.lives[i] >= 0

\* C6: the action vector given to the emulator has one entry per possible
\* agent; slot i is action_mapping[actions[agent_i]] when agent_i is a key of
\* the supplied actions and action_mapping[0] when it is not, pruned or
\* merely omitted; and a step is possible whatever agents are omitted.
C6_ActionVector ==
    /\ StepDone =>
         /\ calls[1].f = "act"
         /\ Len(calls[1].arg) = Len(possible_agents)
         /\ \A i \in 1..Len(possible_agents) :
               calls[1].arg[i] =
                  IF possible_agents[i] \in DOMAIN action_dict
                  THEN action_mapping[action_dict[possible_agents[i]] + 1]
                  ELSE action_mapping[1]
    /\ (started /\ frame < MaxFrame) =>
         \A ad \in ActionDicts : ENABLED Step(ad)

C6_Witness ==
    /\ StepDone
    /\ action_mapping[1] # 0
    /\ \E a \in Range(pre_agents) : a \notin DOMAIN action_dict
    /\ \E a \in Roster \ Range(pre_agents) : a \notin DOMAIN action_dict

\* C7: the agent at roster position i is served by slot i in every step: its
\* action goes to slot i of the action vector, its reward is slot i of the
\* emulator's reward vector and its termination comes from slot i of the life
\* counts, also after agents at lower positions have left the active list.
C7_PositionalSlots ==
    StepDone =>
        \A i \in 1..Len(possible_agents) :
            LET a == possible_agents[i]
            IN  /\ a \in DOMAIN action_dict =>
                     calls[1].arg[i] = action_mapping[action_dict[a] + 1]
                /\ a \in Range(pre_agents) =>
                     /\ ret.rewards[a] = calls[1].res[i]
                     /\ ~ale.over => (ret.terminations[a] <=> ale.lives[i] < 0)

C7_Witness ==
    /\ StepDone
    /\ Len(possible_agents) = 2
    /\ pre_agents = <<possible_agents[2]>>
    /\ calls[1].res[1] # calls[1].res[2]
    /\ ~ale.over

\* C8: after restore_full_state of the buffer clone_full_state returned, the
\* steps with the action_dicts of the original run return the observations
\* and rewards mappings of the original run, whatever steps were taken
\* between the clone and the restore.
C8_FullStateRoundTrip ==
    (StepDone /\ run.mode = "replay" /\ run.pos > 0) =>
        /\ ret.observations = run.log[run.pos].observations
        /\ ret.rewards = run.log[run.pos].rewards

\* C9: the roster is the first num_players of first_0, second_0, third_0,
\* fourth_0, in that order, in every state: no method changes it.
C9_RosterFixed ==
    /\ Len(possible_agents) = num_players
    /\ possible_agents =
         SubSeq(<<"first_0", "second_0", "third_0", "fourth_0">>, 1, num_players)

C9_Witness ==
    /\ lastOp = "restore_full_state"
    /\ started
    /\ agents = <<>>
    /\ num_players = 2
    /\ screen

\* C10: in the result of a reset or a step every agent gets the same
\* observation; it is read from the emulator by one call, made after the
\* reset_game of the reset or the act of the step, and it is the emulator's
\* frame after that call, not the one before it.
C10_SharedObservationAfterAct ==
    lastOp \in {"reset", "step"} =>
        /\ Len(CallsBy("_observe")) = 1
        /\ \A a \in DOMAIN ret.observations :
              /\ ret.observations[a] = CallsBy("_observe")[1].res
              /\ ret.observations[a] = _observe(ale)
        /\ \E i, j \in 1..Len(calls) :
              /\ i < j
              /\ calls[i].f = (IF lastOp = "reset" THEN "reset_game" ELSE "act")
              /\ calls[j].by = "_observe"

C10_Witness ==
    /\ StepDone
    /\ Cardinality(DOMAIN ret.observations) = 2
    /\ render_mode = "human"
    /\ obs_type = "rgb_image"

\* C11: with max_cycles = N >= 1 the episode has ended by the N-th step after
\* reset: either the active list was already empty when that step was entered
\* (an earlier step emptied it), or the step reports truncation true for
\* every agent it reports on, and it reports on every agent still active.
C11_EndedByMaxCycles ==
    (StepDone /\ max_cycles >= 1 /\ steps = max_cycles) =>
        \/ pre_agents = <<>>
        \/ /\ DOMAIN ret.truncations = Range(pre_agents)
           /\ \A a \in DOMAIN ret.truncations : ret.truncations[a]

C11_Witness ==
    /\ StepDone
    /\ max_cycles = MaxCycles
    /\ steps = max_cycles
    /\ agents = possible_agents
    /\ \A a \in Roster : ret.truncations[a]

\* C12: a construction whose mode selector is not among the modes the
\* emulator lists for the requested player count, or whose player count is
\* not the number of players the emulator reports active in the chosen mode,
\* raises; when it raises, no action table, roster or episode state exists;
\* every other construction yields an instance in the chosen mode.
ModeRejected ==
    /\ mode_num # Nothing
    /\ \A i \in 1..Len(ALE_getAvailableModes(rom_path, num_players)) :
           ALE_getAvailableModes(rom_path, num_players)[i] # mode_num[1]

PlayersRejected ==
    LET listed == ALE_getAvailableModes(rom_path, num_players)
        chosen == IF mode_num = Nothing THEN listed[1] ELSE mode_num[1]
    IN  chosen - 17 # num_players

C12_BadConfigurationRaises ==
    /\ (ModeRejected \/ PlayersRejected) <=> lastOp = "init_raised"
    /\ lastOp = "init_raised" =>
         /\ action_mapping = <<>>
         /\ possible_agents = <<>>
         /\ agents = <<>>
         /\ ~started
         /\ ~screen
         /\ calls = <<>>
    /\ lastOp # "init_raised" =>
         /\ mode = ale.mode
         /\ mode \in Range(ALE_getAvailableModes(rom_path, num_players))
         /\ Len(possible_agents) = num_players

C12_Witness ==
    /\ lastOp = "init_raised"
    /\ PlayersRejected
    /\ ~ModeRejected
    /\ mode = 21

\* C13: a reset with a seed calls setInt(random_seed, seed), loadROM and
\* setMode(self.mode), in that order, before reset_game, and the emulator
\* runs from that seed; a reset without a seed makes none of the three calls
\* and keeps the emulator's random stream; in every state the emulator's
\* selected mode is the mode fixed at construction.
C13_SeededResetReloads ==
    /\ [](ale.mode = mode)
    /\ [][\A seed \in SeedArgs : Reset(seed) =>
            IF seed # Nothing
            THEN /\ Len(calls') >= 4
                 /\ calls'[1].f = "setInt" /\ calls'[1].arg = seed[1]
                 /\ calls'[2].f = "loadROM"
                 /\ calls'[3].f = "setMode" /\ calls'[3].arg = mode
                 /\ calls'[4].f = "reset_game"
                 /\ \A i \in 5..Len(calls') :
                       calls'[i].f \notin {"setInt", "loadROM", "setMode"}
                 /\ ale' = ALE_reset_game(
                              ALE_setMode(ALE_loadROM(seed[1]), mode))
            ELSE /\ calls'[1].f = "reset_game"
                 /\ \A i \in 1..Len(calls') :
                       calls'[i].f \notin {"setInt", "loadROM", "setMode"}
                 /\ ale'.rng = ale.rng
                 /\ ale'.mode = ale.mode]_vars

C13_Witness ==
    /\ lastOp = "reset"
    /\ Len(calls) >= 4
    /\ calls[1].f = "setInt"
    /\ calls[3].f = "setMode"
    /\ steps = 0
    /\ Len(pre_agents) < Len(possible_agents)
    /\ ale.mode = 19

\* C14: render changes neither the emulator nor the episode: after a direct
\* render, in every render mode, the frame counter, the active list, the
\* roster and the emulator are what they were before it; after a step in
\* human mode, whose last act is a render, the emulator is the one the act
\* left, the frame counter is one more and the active list is the pruned
\* one.  Only self._screen may differ.
C14_RenderLeavesState ==
    [][/\ lastOp' = "render" =>
            /\ frame' = frame
            /\ agents' = agents
            /\ possible_agents' = possible_agents
            /\ started' = started
            /\ self_terminations' = self_terminations
            /\ ale' = ale
       /\ (lastOp' = "step" /\ render_mode = "human") =>
            /\ \E i \in 1..Len(calls') : calls'[i].by = "render"
            /\ ale' = ALE_act(ale, calls'[1].arg)
            /\ frame' = frame + 1
            /\ agents' = Prune(agents, ret'.terminations)
            /\ possible_agents' = possible_agents]_vars

C14_Witness ==
    /\ lastOp = "render"
    /\ render_mode = "human"
    /\ screen
    /\ frame = 1
    /\ Len(agents) = 1
    /\ Len(possible_agents) = 2
    /\ ale.over = FALSE

\* C15: the display surface comes into being only in a human-mode render,
\* called directly or by step, and goes away only in close; a human-mode
\* render always leaves a surface, also after a close; close leaves no
\* surface and changes nothing else, so a close that finds no surface
\* changes nothing at all and close;close leaves the state of one close.
C15_SurfaceLifecycle ==
    [][/\ (~screen /\ screen') =>
            (render_mode = "human" /\ lastOp' \in {"render", "step"})
       /\ (screen /\ ~screen') => lastOp' = "close"
       /\ (lastOp' = "render" /\ render_mode = "human") => screen'
       /\ (lastOp' = "render" /\ render_mode # "human") => screen' = screen
       /\ lastOp' = "close" =>
            /\ ~screen'
            /\ UNCHANGED <<config, agents, started, frame, self_terminations,
                           ale>>
       /\ (lastOp' = "close" /\ ~screen) =>
            UNCHANGED <<config, agents, started, frame, self_terminations,
                        ale, screen>>]_vars

C15_Witness ==
    /\ lastOp = "close"
    /\ render_mode = "human"
    /\ ~screen
    /\ frame >= 1

\* C16: on an adapter constructed without a render mode, render can always
\* be called; it returns None, makes no call on the emulator, creates no
\* display surface and leaves the emulator and the episode as they were.
C16_RenderWithoutMode ==
    /\ [](render_mode = None => ENABLED Render)
    /\ [][(lastOp' = "render" /\ render_mode = None) =>
            /\ ret' = Nothing
            /\ calls' = <<>>
            /\ ~screen'
            /\ UNCHANGED <<config, agents, started, frame, self_terminations,
                           ale, screen>>]_vars

C16_Witness ==
    /\ lastOp = "render"
    /\ render_mode = None
    /\ ret = Nothing
    /\ calls = <<>>
    /\ started
    /\ frame >= 1

\* C17: each of clone_state, restore_state, clone_full_state and
\* restore_full_state makes exactly three emulator calls: one that returns a
\* state handle (its own clone primitive, or decodeState), one that uses that
\* handle (encodeState, or its own restore primitive), and one deleteState of
\* that handle, in this order; no handle is live in any state.
SnapshotOps ==
    {"clone_state", "restore_state", "clone_full_state", "restore_full_state"}

AcquiredBy(op) ==
    IF op = "clone_state" THEN "cloneState"
    ELSE IF op = "clone_full_state" THEN "cloneSystemState"
    ELSE "decodeState"

UsedBy(op) ==
    IF op = "restore_state" THEN "restoreState"
    ELSE IF op = "restore_full_state" THEN "restoreSystemState"
    ELSE "encodeState"

C17_HandleLifetime ==
    /\ ale.refs = {}
    /\ lastOp \in SnapshotOps =>
         /\ Len(calls) = 3
         /\ \A i \in 1..3 : calls[i].by = lastOp
         /\ calls[1].f = AcquiredBy(lastOp)
         /\ calls[2].f = UsedBy(lastOp)
         /\ calls[2].arg = calls[1].res
         /\ calls[3].f = "deleteState"
         /\ calls[3].arg = calls[1].res
    /\ lastOp \notin SnapshotOps =>
         \A i \in 1..Len(calls) :
            calls[i].f \notin {"cloneState", "cloneSystemState", "decodeState",
                               "encodeState", "restoreState",
                               "restoreSystemState", "deleteState"}

C17_Witness ==
    /\ lastOp = "restore_state"
    /\ started
    /\ frame >= 1
    /\ Len(calls) = 3
    /\ calls[3].f = "deleteState"
    /\ ale.refs = {}

C19_TruncationKeepsAgents ==
    StepDone =>
        /\ ( /\ \E a \in Range(pre_agents) : ret.truncations[a]
             /\ \A a \in Range(pre_agents) : ~ret.terminations[a] )
           => agents = pre_agents
        /\ steps > max_cycles =>
             /\ frame = steps
             /\ DOMAIN ret.truncations = Range(pre_agents)
             /\ \A a \in Range(pre_agents) : ret.truncations[a]

C19_Witness ==
    /\ StepDone
    /\ steps > max_cycles
    /\ frame > max_cycles
    /\ Len(possible_agents) = 2
    /\ agents = possible_agents
    /\ pre_agents = possible_agents
    /\ \A a \in Roster : ret.truncations[a] /\ ~ret.terminations[a]

\* C20, as stated: a step entered with an empty active list sends the
\* emulator a roster-length vector of mapped no-op actions, adds one to the
\* frame counter, returns five empty mappings and leaves the list empty.
C20_NoOpVectorOnEmptyList ==
    (StepDone /\ pre_agents = <<>>) =>
        /\ calls[1].f = "act"
        /\ calls[1].arg = [i \in 1..Len(possible_agents) |-> action_mapping[1]]
        /\ \A k \in 1..5 : DOMAIN StepMappings[k] = {}
        /\ agents = <<>>
        /\ frame = steps

\* C20, amended: a step entered with an empty active list can be taken with
\* any action_dict; it sends the emulator a roster-length vector whose slot i
\* is the mapped no-op unless action_dict has a key for roster agent i, whose
\* action is still sent; it returns five empty mappings and leaves the list
\* empty; and once reset has run, the frame counter is the number of steps
\* since the last reset.
C20_StepOnEmptyList ==
    /\ (started /\ agents = <<>> /\ frame < MaxFrame) =>
         \A ad \in ActionDicts : ENABLED Step(ad)
    /\ (StepDone /\ pre_agents = <<>>) =>
         /\ calls[1].f = "act"
         /\ Len(calls[1].arg) = Len(possible_agents)
         /\ \A i \in 1..Len(possible_agents) :
               calls[1].arg[i] =
                  IF possible_agents[i] \in DOMAIN action_dict
                  THEN action_mapping[action_dict[possible_agents[i]] + 1]
                  ELSE action_mapping[1]
         /\ \A k \in 1..5 : DOMAIN StepMappings[k] = {}
         /\ agents = <<>>
    /\ started => frame = steps

C20_Witness ==
    /\ StepDone
    /\ pre_agents = <<>>
    /\ agents = <<>>
    /\ num_players = 2
    /\ ~ale.over
    /\ frame = 2
    /\ action_dict = NoActions
    /\ ret.truncations = NoActions

====
